---- MODULE Spec2Model ----
(***************************************************************************)
(* MindMate assessment engine: the moderator's session cache, the durable  *)
(* session store with optimistic locking, module completion persistence    *)
(* and the DA/TPA prerequisite checks (assessment_v2/moderator.py,         *)
(* assessment_v2/database.py, assessment.py as given in the fix plan).     *)
(***************************************************************************)
EXTENDS Integers, Sequences, FiniteSets, TLC

\* ------------------------------------------------------------------ bounds

\* Cap on the version counters where requests run concurrently: no new turn is
\* accepted once the versions of all sessions add up to it.
MaxVersion == 3

\* The same cap where one request runs at a time.
MaxSeqVersion == 5

\* ------------------------------------------------------------ configuration

SessionIds == {"s1", "s2"}
Subjects == {"u1", "u2"}
\* Subjects that start sessions; every subject sends turns.
Starters == {"u1"}
NoOwner == ""
Workers == {"w1", "w2"}

\* The configured module sequence: two diagnostic modules, then DA, then TPA.
ModuleSequence == <<"intake", "mood", "da_diagnostic_analysis", "tpa_treatment_planning">>

Modules == {ModuleSequence[i] : i \in 1..Len(ModuleSequence)}

get_diagnostic_modules == <<"intake", "mood">>

DA == "da_diagnostic_analysis"

TPA == "tpa_treatment_planning"

\* Longest module_history of a snapshot given to the prerequisite validator.
MaxHist == 2

\* The cap on the version counters where two sessions are served in parallel.
MaxTwoVersion == 2

\* Attempts of a durable write before PersistenceError is surfaced.
MaxAttempts == 3

\* What the external text-understanding capability does with a request.
Capability == {"ok", "timeout", "non_success", "malformed"}

\* Inbound texts: one the rules recognise, one they do not, the empty text.
Texts == {"yes", "unclear", ""}

\* A module result payload: no entry, an empty payload, a usable payload.
Payloads == {"absent", "empty", "full"}

NoResults == [m \in Modules |-> "absent"]

\* ------------------------------------------------------------------- state

VARIABLES
    cache,       \* self.sessions: session_id -> in-memory SessionState object
    db,          \* AssessmentSessionModel rows: session_id -> row
    dbResults,   \* stored module results: session_id -> module -> payload
    dbTurns,     \* conversation turn log: session_id -> sequence of producing modules
    modState,    \* each module's own progress per session: "open", "full" or "empty"
    wk,          \* each request handler's position and locals
    last,        \* the response of the operation that has just returned, if any
    snap,        \* prerequisite check input: a session snapshot
    answer,      \* prerequisite check output: the module asked about and the result
    hook,        \* useAssessmentAPI: isLoading, error and the calls made through it
    otp          \* the OTP page: its props, its state, its timer and its requests

vars == <<cache, db, dbResults, dbTurns, modState, wk, last, snap, answer, hook, otp>>

Idle == [pc |-> "idle", sid |-> "s1", sub |-> NoOwner, mod |-> "intake",
         complete |-> FALSE, attempts |-> 0, expected |-> 0, path |-> "none"]

NoLast == [op |-> "none", sid |-> "s1", sub |-> NoOwner, out |-> "none"]

Response(op, sid, sub, out) == [op |-> op, sid |-> sid, sub |-> sub, out |-> out]

Range(s) == {s[i] : i \in 1..Len(s)}

IndexOf(m) == CHOOSE i \in 1..Len(ModuleSequence) : ModuleSequence[i] = m

RECURSIVE Sum(_, _)
Sum(f, S) == IF S = {} THEN 0
             ELSE LET x == CHOOSE y \in S : TRUE IN f[x] + Sum(f, S \ {x})

\* Variant: one object shared by every key.
Put_shared(f, k, v) == [x \in (DOMAIN f) \cup {k} |-> v]

Put(f, k, v) == [x \in (DOMAIN f) \cup {k} |-> IF x = k THEN v ELSE f[x]]

\* A SessionState as loaded from the durable store: the row plus its stored results.
db_get_session(sid) ==
    [owner |-> db[sid].owner,
     current_module |-> db[sid].current_module,
     module_history |-> db[sid].module_history,
     module_results |-> dbResults[sid],
     version |-> db[sid].version,
     is_complete |-> db[sid].is_complete]

\* Variant: the row keeps only the most recent module of the history.
RowOf_last(s) ==
    [owner |-> s.owner,
     current_module |-> s.current_module,
     module_history |-> IF s.module_history = << >> THEN << >>
                        ELSE <<s.module_history[Len(s.module_history)]>>,
     version |-> s.version,
     is_complete |-> s.is_complete]

\* The row update_session writes from a SessionState.
RowOf(s) ==
    [owner |-> s.owner,
     current_module |-> s.current_module,
     module_history |-> s.module_history,
     version |-> s.version,
     is_complete |-> s.is_complete]

\* -------------------------------------------------- prerequisite validator

RECURSIVE da_loop(_, _, _)
da_loop(i, history, results) ==
    IF i > Len(get_diagnostic_modules) THEN TRUE
    ELSE IF get_diagnostic_modules[i] \notin Range(history) THEN FALSE
    ELSE IF results[get_diagnostic_modules[i]] # "full" THEN FALSE
    ELSE da_loop(i + 1, history, results)

\* Variant: the diagnostic modules only have to be in module_history.
should_run_da_history_only(s) ==
    \A i \in 1..Len(get_diagnostic_modules) :
        get_diagnostic_modules[i] \in Range(s.module_history)

should_run_da(s) == da_loop(1, s.module_history, s.module_results)

\* Variant: DA only has to be in module_history.
should_run_tpa_history_only(s) == DA \in Range(s.module_history)

should_run_tpa(s) ==
    DA \in Range(s.module_history) /\ s.module_results[DA] = "full"

can_enter(m, s) ==
    IF m = DA THEN should_run_da(s)
    ELSE IF m = TPA THEN should_run_tpa(s)
    ELSE TRUE

\* ------------------------------------------------------------ session store

\* get_session_state finds the session: in the cache, or in the database when
\* the read succeeds (a failed read is logged and None is returned).
Found(sid, dbOk) == sid \in DOMAIN cache \/ (dbOk /\ sid \in DOMAIN db)

\* The cache after get_session_state (warmed on a database hit).
Warmed(sid, dbOk) ==
    IF sid \notin DOMAIN cache /\ dbOk /\ sid \in DOMAIN db
    THEN Put(cache, sid, db_get_session(sid))
    ELSE cache

\* The versions handed out so far, over all sessions (the cached object's where
\* a session is cached, the row's otherwise).
VersionsUsed(c) ==
    Sum([sid \in (DOMAIN c) \cup (DOMAIN db) |->
            IF sid \in DOMAIN c THEN c[sid].version ELSE db[sid].version],
        (DOMAIN c) \cup (DOMAIN db))

owner_matches(s, patient_id) == s.owner = patient_id

\* Variant: a session without a patient_id is let through (backward
\* compatibility fallback).
validate_session_ownership_fallback(s, patient_id) ==
    IF s.owner = NoOwner THEN TRUE
    ELSE owner_matches(s, patient_id)

validate_session_ownership(s, patient_id) ==
    IF s.owner = NoOwner THEN FALSE
    ELSE owner_matches(s, patient_id)

\* GET state: get_session_state answers from the cache, else from the database
\* (warming the cache), else None; the session it returns is the cached object.
get_session_state(sid) ==
    /\ \E dbOk \in BOOLEAN :
        IF ~Found(sid, dbOk)
        THEN /\ last' = Response("get", sid, NoOwner, "NotFound")
             /\ UNCHANGED cache
        ELSE /\ cache' = Warmed(sid, dbOk)
             /\ last' = Response("get", sid, NoOwner, "Found")
    /\ UNCHANGED <<db, dbResults, dbTurns, modState, wk, snap, answer, hook, otp>>

\* A new SessionState: the first module of the sequence is active.
NewSession(sub) ==
    [owner |-> sub,
     current_module |-> ModuleSequence[1],
     module_history |-> <<>>,
     module_results |-> NoResults,
     version |-> 0,
     is_complete |-> FALSE]

\* Variant: create without the owner validation.
create_session_unvalidated(w, sid, sub) ==
    \E ok \in BOOLEAN :
         IF ok
         THEN /\ db' = Put(db, sid, RowOf(NewSession(sub)))
              /\ dbResults' = Put(dbResults, sid, NoResults)
              /\ dbTurns' = Put(dbTurns, sid, <<>>)
              /\ cache' = Put(cache, sid, NewSession(sub))
              /\ last' = Response("start", sid, sub, "Created")
         ELSE /\ last' = Response("start", sid, sub, "PersistenceError")
              /\ UNCHANGED <<cache, db, dbResults, dbTurns>>

\* create: the owner must be present; the row is written, then the cache entry.
create_session(w, sid, sub) ==
    IF sub = NoOwner
    THEN /\ last' = Response("start", sid, sub, "ValidationError")
         /\ UNCHANGED <<cache, db, dbResults, dbTurns>>
    ELSE \E ok \in BOOLEAN :
         IF ok
         THEN /\ db' = Put(db, sid, RowOf(NewSession(sub)))
              /\ dbResults' = Put(dbResults, sid, NoResults)
              /\ dbTurns' = Put(dbTurns, sid, <<>>)
              /\ cache' = Put(cache, sid, NewSession(sub))
              /\ last' = Response("start", sid, sub, "Created")
         ELSE /\ last' = Response("start", sid, sub, "PersistenceError")
              /\ UNCHANGED <<cache, db, dbResults, dbTurns>>

\* Variant: start without the existence check.
Start_unchecked(w, sid, sub) ==
    /\ wk[w].pc = "idle"
    /\ create_session(w, sid, sub)
    /\ UNCHANGED <<modState, wk, snap, answer, hook, otp>>

\* POST start.
Start(w, sid, sub) ==
    /\ wk[w].pc = "idle"
    /\ IF sid \in (DOMAIN cache) \cup (DOMAIN db)
       THEN /\ last' = Response("start", sid, sub, "AlreadyExists")
            /\ UNCHANGED <<cache, db, dbResults, dbTurns>>
       ELSE create_session(w, sid, sub)
    /\ UNCHANGED <<modState, wk, snap, answer, hook, otp>>

\* The primary path: the capability's answer, or "none" when it times out,
\* answers without success or answers with malformed output.
capability_extract(capability, text) ==
    IF capability = "ok"
    THEN [shape |-> "interpretation", answer |-> text, path |-> "primary"]
    ELSE "none"

\* The fallback path: deterministic rule-based extraction, total on texts.
rule_based_extract(text) ==
    [shape |-> "interpretation",
     answer |-> IF text = "yes" THEN "yes" ELSE "unknown",
     path |-> "fallback"]

\* Variant: a processor without the fallback path.
process_response_primary_only(capability, text) ==
    IF capability = "ok" THEN capability_extract(capability, text)
    ELSE [shape |-> "error", answer |-> "unknown", path |-> "primary"]

\* The Response Processor: the primary path, else the fallback path.
process_response(capability, text) ==
    IF capability = "ok" THEN capability_extract(capability, text)
    ELSE rule_based_extract(text)

\* Variant: an interpretation of the fallback path never completes a module.
Delegate_by_path(w, sid, sub, s, cap) ==
    IF s.is_complete
    THEN /\ last' = Response("turn", sid, sub, "Complete")
         /\ UNCHANGED <<wk, modState>>
    ELSE /\ VersionsUsed(cache') < cap
         /\ \E capability \in Capability, text \in Texts :
            LET interpretation == process_response(capability, text)
            IN IF interpretation.shape # "interpretation"
               THEN /\ last' = Response("turn", sid, sub, "DependencyUnavailableError")
                    /\ UNCHANGED <<wk, modState>>
               ELSE \E r \in (IF modState[sid][s.current_module] # "open"
                               THEN {modState[sid][s.current_module]}
                               ELSE IF interpretation.path = "fallback"
                               THEN {"open"}
                               ELSE {"open", "full", "empty"}) :
                    /\ modState' = [modState EXCEPT ![sid][s.current_module] = r]
                    /\ wk' = [wk EXCEPT ![w] = [pc |-> "update", sid |-> sid,
                                                sub |-> sub,
                                                mod |-> s.current_module,
                                                complete |-> (r # "open"),
                                                attempts |-> 0, expected |-> 0,
                                                path |-> interpretation.path]]
                    /\ last' = NoLast

\* The active module handles the interpreted text and reports a continuation
\* or its completion; a completed module stays complete with the same result.
\* A session that is complete takes no further turn.
Delegate(w, sid, sub, s, cap) ==
    IF s.is_complete
    THEN /\ last' = Response("turn", sid, sub, "Complete")
         /\ UNCHANGED <<wk, modState>>
    ELSE /\ VersionsUsed(cache') < cap
         /\ \E capability \in Capability, text \in Texts :
            LET interpretation == process_response(capability, text)
            IN IF interpretation.shape # "interpretation"
               THEN /\ last' = Response("turn", sid, sub, "DependencyUnavailableError")
                    /\ UNCHANGED <<wk, modState>>
               ELSE \E r \in (IF modState[sid][s.current_module] = "open"
                               THEN {"open", "full", "empty"}
                               ELSE {modState[sid][s.current_module]}) :
                    /\ modState' = [modState EXCEPT ![sid][s.current_module] = r]
                    /\ wk' = [wk EXCEPT ![w] = [pc |-> "update", sid |-> sid,
                                                sub |-> sub,
                                                mod |-> s.current_module,
                                                complete |-> (r # "open"),
                                                attempts |-> 0, expected |-> 0,
                                                path |-> interpretation.path]]
                    /\ last' = NoLast

\* Variant: a session that is not found is started on the spot.
process_message_implicit(w, sid, sub, cap) ==
    /\ wk[w].pc = "idle"
    /\ \E dbOk \in BOOLEAN :
        IF ~Found(sid, dbOk)
        THEN /\ cache' = Put(cache, sid, NewSession(sub))
             /\ last' = Response("turn", sid, sub, "Ok")
             /\ UNCHANGED <<wk, modState>>
        ELSE /\ cache' = Warmed(sid, dbOk)
             /\ IF ~validate_session_ownership(cache'[sid], sub)
                THEN /\ last' = Response("turn", sid, sub, "AccessDenied")
                     /\ UNCHANGED <<wk, modState>>
                ELSE Delegate(w, sid, sub, cache'[sid], cap)
    /\ UNCHANGED <<db, dbResults, dbTurns, snap, answer, hook, otp>>

\* Variant: the message is processed without the ownership validation.
process_message_unchecked(w, sid, sub, cap) ==
    /\ wk[w].pc = "idle"
    /\ \E dbOk \in BOOLEAN :
        IF ~Found(sid, dbOk)
        THEN /\ last' = Response("turn", sid, sub, "NotFound")
             /\ UNCHANGED <<cache, wk, modState>>
        ELSE /\ cache' = Warmed(sid, dbOk)
             /\ Delegate(w, sid, sub, cache'[sid], cap)
    /\ UNCHANGED <<db, dbResults, dbTurns, snap, answer, hook, otp>>

\* process_message: the session is looked up (never created), its ownership is
\* validated, and the message goes to the active module.
process_message(w, sid, sub, cap) ==
    /\ wk[w].pc = "idle"
    /\ \E dbOk \in BOOLEAN :
        IF ~Found(sid, dbOk)
        THEN /\ last' = Response("turn", sid, sub, "NotFound")
             /\ UNCHANGED <<cache, wk, modState>>
        ELSE /\ cache' = Warmed(sid, dbOk)
             /\ IF ~validate_session_ownership(cache'[sid], sub)
                THEN /\ last' = Response("turn", sid, sub, "AccessDenied")
                     /\ UNCHANGED <<wk, modState>>
                ELSE Delegate(w, sid, sub, cache'[sid], cap)
    /\ UNCHANGED <<db, dbResults, dbTurns, snap, answer, hook, otp>>

\* A failed attempt of the durable write: retried, up to MaxAttempts in all,
\* then surfaced.
Retry(w) ==
    IF wk[w].attempts + 1 < MaxAttempts
    THEN /\ wk' = [wk EXCEPT ![w].pc = "update", ![w].attempts = @ + 1,
                             ![w].expected = 0, ![w].path = "none"]
         /\ last' = NoLast
    ELSE /\ wk' = [wk EXCEPT ![w] = Idle]
         /\ last' = Response("turn", wk[w].sid, wk[w].sub, "PersistenceError")

\* Variant: a version mismatch is ignored and the write goes ahead.
update_session_check_blind(w) ==
    /\ wk[w].pc = "update"
    /\ LET sid == wk[w].sid
       IN \E queryOk \in BOOLEAN :
          IF ~queryOk
          THEN Retry(w)
          ELSE /\ wk' = [wk EXCEPT ![w].pc = "write",
                                   ![w].expected = cache[sid].version,
                                   ![w].path = "none"]
               /\ last' = NoLast
    /\ UNCHANGED <<cache, db, dbResults, dbTurns, modState, snap, answer, hook, otp>>

\* update_session, the version check: the row is queried by session_id and by
\* the version the in-memory session carries.
update_session_check(w) ==
    /\ wk[w].pc = "update"
    /\ LET sid == wk[w].sid
       IN \E queryOk \in BOOLEAN :
          IF ~queryOk
          THEN Retry(w)
          ELSE IF db[sid].version # cache[sid].version
          THEN /\ wk' = [wk EXCEPT ![w] = Idle]
               /\ last' = Response("turn", sid, wk[w].sub, "ConcurrentModificationError")
          ELSE /\ wk' = [wk EXCEPT ![w].pc = "write",
                                   ![w].expected = cache[sid].version,
                                   ![w].path = "none"]
               /\ last' = NoLast
    /\ UNCHANGED <<cache, db, dbResults, dbTurns, modState, snap, answer, hook, otp>>

\* Variant: the turn is stored under the index that follows the version the
\* handler read, whatever the log holds by then.
update_session_write_keyed(w) ==
    /\ wk[w].pc = "write"
    /\ LET sid == wk[w].sid
           s1 == [cache[sid] EXCEPT !.version = @ + 1]
           i == wk[w].expected + 1
       IN /\ cache' = [cache EXCEPT ![sid] = s1]
          /\ \E commitOk \in BOOLEAN :
             IF commitOk
             THEN /\ db' = [db EXCEPT ![sid] = RowOf(s1)]
                  /\ dbTurns' = [dbTurns EXCEPT ![sid] =
                                    IF i <= Len(@) THEN [@ EXCEPT ![i] = wk[w].mod]
                                    ELSE Append(@, wk[w].mod)]
                  /\ IF wk[w].complete
                     THEN /\ wk' = [wk EXCEPT ![w].pc = "finish", ![w].expected = 0]
                          /\ last' = NoLast
                     ELSE /\ wk' = [wk EXCEPT ![w] = Idle]
                          /\ last' = Response("turn", sid, wk[w].sub, "Ok")
             ELSE /\ Retry(w)
                  /\ UNCHANGED <<db, dbTurns>>
    /\ UNCHANGED <<dbResults, modState, snap, answer, hook, otp>>

\* update_session, the write: the in-memory version is incremented, the row is
\* written from the session and the transaction commits or rolls back.
update_session_write(w) ==
    /\ wk[w].pc = "write"
    /\ LET sid == wk[w].sid
           s1 == [cache[sid] EXCEPT !.version = @ + 1]
       IN /\ cache' = [cache EXCEPT ![sid] = s1]
          /\ \E commitOk \in BOOLEAN :
             IF commitOk
             THEN /\ db' = [db EXCEPT ![sid] = RowOf(s1)]
                  /\ dbTurns' = [dbTurns EXCEPT ![sid] = Append(@, wk[w].mod)]
                  /\ IF wk[w].complete
                     THEN /\ wk' = [wk EXCEPT ![w].pc = "finish", ![w].expected = 0]
                          /\ last' = NoLast
                     ELSE /\ wk' = [wk EXCEPT ![w] = Idle]
                          /\ last' = Response("turn", sid, wk[w].sub, "Ok")
             ELSE /\ Retry(w)
                  /\ UNCHANGED <<db, dbTurns>>
    /\ UNCHANGED <<dbResults, modState, snap, answer, hook, otp>>

\* Variant: the module is appended on every completion.
mark_module_completed_again(s, m) ==
    [s EXCEPT !.module_history = Append(@, m)]

\* _mark_module_completed: the module joins module_history, once.
mark_module_completed(s, m) ==
    IF m \in Range(s.module_history) THEN s
    ELSE [s EXCEPT !.module_history = Append(@, m)]

\* The transition after a completed module: the next module of the sequence is
\* entered only if its prerequisites are met; the last module ends the session.
Transition(s, m) ==
    IF IndexOf(m) = Len(ModuleSequence)
    THEN [s EXCEPT !.is_complete = TRUE]
    ELSE IF can_enter(ModuleSequence[IndexOf(m) + 1], s)
    THEN [s EXCEPT !.current_module = ModuleSequence[IndexOf(m) + 1]]
    ELSE s

TransitionOutcome(s, m) ==
    IF IndexOf(m) = Len(ModuleSequence) THEN "Complete"
    ELSE IF can_enter(ModuleSequence[IndexOf(m) + 1], s) THEN "Ok"
    ELSE "PrerequisiteUnmetError"

\* The module-complete branch: results are stored and persisted, then the
\* module is marked completed and the transition follows.
module_complete(w) ==
    /\ wk[w].pc = "finish"
    /\ LET sid == wk[w].sid
           m == wk[w].mod
           module_results == modState[sid][m]
           s1 == IF module_results = "full"
                 THEN [cache[sid] EXCEPT !.module_results[m] = module_results]
                 ELSE cache[sid]
           s2 == mark_module_completed(s1, m)
       IN \E storeOk \in BOOLEAN :
          IF module_results = "full" /\ ~storeOk
          THEN /\ cache' = [cache EXCEPT ![sid] = s1]
               /\ last' = Response("turn", sid, wk[w].sub, "ErrorSavingResults")
               /\ UNCHANGED dbResults
          ELSE /\ dbResults' = IF module_results = "full"
                               THEN [dbResults EXCEPT ![sid][m] = module_results]
                               ELSE dbResults
               /\ cache' = [cache EXCEPT ![sid] = Transition(s2, m)]
               /\ last' = Response("turn", sid, wk[w].sub, TransitionOutcome(s2, m))
    /\ wk' = [wk EXCEPT ![w] = Idle]
    /\ UNCHANGED <<db, dbTurns, modState, snap, answer, hook, otp>>

\* The process restarts: the cache and the requests in flight are lost.
Restart ==
    /\ cache # << >> \/ \E w \in Workers : wk[w].pc # "idle"
    /\ cache' = << >>
    /\ wk' = [w \in Workers |-> Idle]
    /\ last' = NoLast
    /\ UNCHANGED <<db, dbResults, dbTurns, modState, snap, answer, hook, otp>>

\* ------------------------------------- frontend: the useAssessmentAPI hook

\* The calls that may be pending at once, and the functions of the hook.
Requests == {"r1", "r2"}
Calls == {"startSession", "continueSession", "deleteSession"}

HTTP_OK == 200
HTTP_NOT_FOUND == 404
HTTP_SERVER_ERROR == 500
\* An error without err.response (the request never got an answer).
NoResponse == 0

\* useState(null) of error.
NoError == "null"

\* What a call ends with: the response, or an error with its status, its
\* response.data.detail and its message ("" where absent).
Outcomes ==
    {[ok |-> TRUE, status |-> HTTP_OK, detail |-> "", message |-> ""],
     [ok |-> FALSE, status |-> HTTP_NOT_FOUND, detail |-> "Session not found",
      message |-> "Request failed with status code 404"],
     [ok |-> FALSE, status |-> HTTP_SERVER_ERROR, detail |-> "",
      message |-> "Request failed with status code 500"],
     [ok |-> FALSE, status |-> NoResponse, detail |-> "", message |-> "Network Error"],
     [ok |-> FALSE, status |-> NoResponse, detail |-> "", message |-> ""]}

NoCall == [pc |-> "idle", call |-> "none", value |-> "none", status |-> NoResponse]

HookInit == [isLoading |-> FALSE, error |-> NoError, req |-> [r \in Requests |-> NoCall]]

\* handleError: the message stored by setError; the error is thrown again.
handleError(err) ==
    IF err.detail # "" THEN err.detail
    ELSE IF err.message # "" THEN err.message
    ELSE "An error occurred"

\* startSession, continueSession: how the call settles and what error holds.
call_settled(err, error) ==
    IF err.ok THEN [pc |-> "resolved", value |-> "data", error |-> error]
    ELSE [pc |-> "rejected", value |-> "error", error |-> handleError(err)]

\* Variant: a 404 is handled like every other failure.
deleteSession_rethrowing(err, error) == call_settled(err, error)

\* deleteSession: a 404 resolves with a success-like object.
deleteSession_settled(err, error) ==
    IF err.ok THEN [pc |-> "resolved", value |-> "data", error |-> error]
    ELSE IF err.status = HTTP_NOT_FOUND
    THEN [pc |-> "resolved", value |-> "success_like", error |-> error]
    ELSE [pc |-> "rejected", value |-> "error", error |-> handleError(err)]

\* A function of the hook is called: up to its first await.
hookCall(r, c) ==
    /\ hook.req[r].pc = "idle"
    /\ hook' = [hook EXCEPT !.isLoading = TRUE,
                            !.error = NoError,
                            !.req[r] = [pc |-> "inflight", call |-> c, value |-> "none",
                                        status |-> NoResponse]]
    /\ UNCHANGED <<cache, db, dbResults, dbTurns, modState, wk, last, snap, answer, otp>>

\* The awaited request ends: try or catch, then finally.
hookSettle(r) ==
    /\ hook.req[r].pc = "inflight"
    /\ \E err \in Outcomes :
          LET c == hook.req[r].call
              s == IF c = "deleteSession" THEN deleteSession_settled(err, hook.error)
                   ELSE call_settled(err, hook.error)
          IN hook' = [hook EXCEPT !.isLoading = FALSE,
                                  !.error = s.error,
                                  !.req[r] = [pc |-> s.pc, call |-> c, value |-> s.value,
                                              status |-> err.status]]
    /\ UNCHANGED <<cache, db, dbResults, dbTurns, modState, wk, last, snap, answer, otp>>

\* The caller has taken the result of the call.
hookRelease(r) ==
    /\ hook.req[r].pc \in {"resolved", "rejected"}
    /\ hook' = [hook EXCEPT !.req[r] = NoCall]
    /\ UNCHANGED <<cache, db, dbResults, dbTurns, modState, wk, last, snap, answer, otp>>

\* ------------------------------------------------- frontend: the OTP page

\* useState(40) of timer and the wait of a rate-limited answer, in seconds.
TimerStart == 40
RetryAfter == 60

\* The automatic resends counted (a page sends one).
MaxAutoSent == 2

\* The page as mounted with its navigation state.
OTP(from409Redirect, isPasswordReset, email) ==
    [mounted |-> TRUE,
     from409Redirect |-> from409Redirect,
     isPasswordReset |-> isPasswordReset,
     email |-> email,
     timer |-> TimerStart,
     isSubmitting |-> FALSE,
     hasAutoResent |-> FALSE,
     autoResendTimer |-> FALSE,
     deps |-> <<>>,
     requests |-> {},
     autoSent |-> 0]

\* The dependencies of the auto-resend effect that change while mounted.
EffectDeps(o) == <<o.hasAutoResent, o.isSubmitting>>

\* Variant: the effect does not look at hasAutoResent.
autoResendCondition_unlatched(o) ==
    o.from409Redirect /\ o.email /\ ~o.isPasswordReset /\ ~o.isSubmitting

\* The condition under which the effect sets the one-second timeout.
autoResendCondition(o) ==
    /\ o.from409Redirect
    /\ o.email
    /\ ~o.isPasswordReset
    /\ ~o.hasAutoResent
    /\ ~o.isSubmitting

\* The effect runs after a render with changed dependencies: the cleanup of
\* the previous run clears its timeout, then the condition is evaluated.
autoResendEffect ==
    /\ otp.mounted
    /\ otp.deps # EffectDeps(otp)
    /\ otp' = [otp EXCEPT !.autoResendTimer = autoResendCondition(otp),
                          !.deps = EffectDeps(otp)]
    /\ UNCHANGED <<cache, db, dbResults, dbTurns, modState, wk, last, snap, answer, hook>>

\* The timeout fires: the resend request is sent.
autoResendTimeout ==
    /\ otp.mounted
    /\ otp.autoResendTimer
    /\ otp.autoSent < MaxAutoSent
    /\ otp' = [otp EXCEPT !.autoResendTimer = FALSE,
                          !.hasAutoResent = TRUE,
                          !.timer = TimerStart,
                          !.isSubmitting = TRUE,
                          !.requests = @ \cup {"auto"},
                          !.autoSent = @ + 1]
    /\ UNCHANGED <<cache, db, dbResults, dbTurns, modState, wk, last, snap, answer, hook>>

\* handleVerify, up to its request (the buttons are disabled while submitting).
handleVerify ==
    /\ otp.mounted
    /\ ~otp.isSubmitting
    /\ otp.email
    /\ otp' = [otp EXCEPT !.isSubmitting = TRUE, !.requests = @ \cup {"verify"}]
    /\ UNCHANGED <<cache, db, dbResults, dbTurns, modState, wk, last, snap, answer, hook>>

\* handleResend, up to its request.
handleResend ==
    /\ otp.mounted
    /\ ~otp.isSubmitting
    /\ ~(otp.timer > 0 /\ ~otp.from409Redirect)
    /\ otp' = [otp EXCEPT !.timer = IF otp.from409Redirect THEN @ ELSE TimerStart,
                          !.isSubmitting = TRUE,
                          !.requests = @ \cup {"resend"}]
    /\ UNCHANGED <<cache, db, dbResults, dbTurns, modState, wk, last, snap, answer, hook>>

\* A request of the page ends: a resend leaves the timer, clears it or sets
\* the wait it was told; finally isSubmitting is cleared.
otpSettle(q) ==
    /\ otp.mounted
    /\ q \in otp.requests
    /\ \E t \in (IF q = "verify" THEN {otp.timer} ELSE {otp.timer, 0, RetryAfter}) :
          otp' = [otp EXCEPT !.isSubmitting = FALSE,
                             !.timer = t,
                             !.requests = @ \ {q}]
    /\ UNCHANGED <<cache, db, dbResults, dbTurns, modState, wk, last, snap, answer, hook>>

\* The countdown of the timer runs out.
otpCountdown ==
    /\ otp.mounted
    /\ otp.timer > 0
    /\ otp' = [otp EXCEPT !.timer = 0]
    /\ UNCHANGED <<cache, db, dbResults, dbTurns, modState, wk, last, snap, answer, hook>>

\* The page unmounts: the cleanup of the effect clears the timeout.
otpUnmount ==
    /\ otp.mounted
    /\ otp' = [otp EXCEPT !.mounted = FALSE, !.autoResendTimer = FALSE, !.requests = {}]
    /\ UNCHANGED <<cache, db, dbResults, dbTurns, modState, wk, last, snap, answer, hook>>

\* The page is mounted again with the same navigation state.
otpMount ==
    /\ ~otp.mounted
    /\ otp' = OTP(otp.from409Redirect, otp.isPasswordReset, otp.email)
    /\ UNCHANGED <<cache, db, dbResults, dbTurns, modState, wk, last, snap, answer, hook>>

NoSnap == [module_history |-> <<>>, module_results |-> NoResults]

NoAnswer == [module |-> "none", result |-> FALSE]

Init ==
    /\ cache = << >>
    /\ db = << >>
    /\ dbResults = << >>
    /\ dbTurns = << >>
    /\ modState = [sid \in SessionIds |-> [m \in Modules |-> "open"]]
    /\ wk = [w \in Workers |-> Idle]
    /\ last = NoLast
    /\ snap = NoSnap
    /\ answer = NoAnswer
    /\ hook = HookInit
    /\ otp = OTP(FALSE, FALSE, TRUE)

\* The requests of handlers W, sessions started under the ids S.
NextOver(W, S, cap) ==
    \/ \E w \in W, sid \in S, sub \in Starters \cup {NoOwner} : Start(w, sid, sub)
    \/ \E w \in W, sid \in SessionIds, sub \in Subjects \cup {NoOwner} :
          process_message(w, sid, sub, cap)
    \/ \E w \in W : update_session_check(w)
    \/ \E w \in W : update_session_write(w)
    \/ \E w \in W : module_complete(w)
    \/ Restart

\* Requests run concurrently on session s1.
Next == NextOver(Workers, {"s1"}, MaxVersion)

Spec == Init /\ [][Next]_vars

\* One request at a time, turns and reads of the session state.
NextSeq ==
    \/ NextOver({"w1"}, {"s1"}, MaxSeqVersion)
    \/ \E sid \in SessionIds : get_session_state(sid)

SpecSeq == Init /\ [][NextSeq]_vars

\* One request at a time, under fair scheduling: a started handler runs on, the
\* client keeps sending turns, and a step that can succeed again and again
\* (the lookup, the module's completion, the version query, the commit, the
\* store of the results) does succeed in the end. A restart is never owed.
NextLive == NextOver({"w1"}, {"s1"}, MaxSeqVersion)

FairLive ==
    /\ WF_vars(Start("w1", "s1", "u1"))
    /\ WF_vars(update_session_check("w1"))
    /\ WF_vars(update_session_write("w1"))
    /\ WF_vars(module_complete("w1"))
    /\ SF_vars(process_message("w1", "s1", "u1", MaxSeqVersion)
                 /\ wk'["w1"].pc = "update" /\ wk'["w1"].complete)
    /\ SF_vars(update_session_check("w1") /\ wk'["w1"].pc = "write")
    /\ SF_vars(update_session_write("w1") /\ db' # db)
    /\ SF_vars(module_complete("w1") /\ last'.out # "ErrorSavingResults")

SpecLive == Init /\ [][NextLive]_vars /\ FairLive

\* Two sessions, each with a handler of its own, the two running in parallel.
Serves == [w1 |-> "s1", w2 |-> "s2"]

NextTwo ==
    \/ \E w \in Workers, sub \in Starters \cup {NoOwner} : Start(w, Serves[w], sub)
    \/ \E w \in Workers, sub \in Subjects :
          process_message(w, Serves[w], sub, MaxTwoVersion)
    \/ \E w \in Workers : update_session_check(w)
    \/ \E w \in Workers : update_session_write(w)
    \/ \E w \in Workers : module_complete(w)
    \/ Restart

SpecTwo == Init /\ [][NextTwo]_vars

\* The calls made through the hook of one component.
NextHook ==
    \/ \E r \in Requests, c \in Calls : hookCall(r, c)
    \/ \E r \in Requests : hookSettle(r)
    \/ \E r \in Requests : hookRelease(r)

SpecHook == Init /\ [][NextHook]_vars

\* The OTP page, mounted with any navigation state.
InitOTP ==
    /\ cache = << >>
    /\ db = << >>
    /\ dbResults = << >>
    /\ dbTurns = << >>
    /\ modState = [sid \in SessionIds |-> [m \in Modules |-> "open"]]
    /\ wk = [w \in Workers |-> Idle]
    /\ last = NoLast
    /\ snap = NoSnap
    /\ answer = NoAnswer
    /\ hook = HookInit
    /\ \E f \in BOOLEAN, p \in BOOLEAN, e \in BOOLEAN : otp = OTP(f, p, e)

NextOTP ==
    \/ autoResendEffect
    \/ autoResendTimeout
    \/ handleVerify
    \/ handleResend
    \/ \E q \in {"verify", "resend", "auto"} : otpSettle(q)
    \/ otpCountdown
    \/ otpUnmount
    \/ otpMount

SpecOTP == InitOTP /\ [][NextOTP]_vars

\* The store before the patient_id migration: s1 is a row without a patient_id.
LegacyRow == RowOf(NewSession(NoOwner))

InitLegacy ==
    /\ cache = << >>
    /\ db = [sid \in {"s1"} |-> LegacyRow]
    /\ dbResults = [sid \in {"s1"} |-> NoResults]
    /\ dbTurns = [sid \in {"s1"} |-> << >>]
    /\ modState = [sid \in SessionIds |-> [m \in Modules |-> "open"]]
    /\ wk = [w \in Workers |-> Idle]
    /\ last = NoLast
    /\ snap = NoSnap
    /\ answer = NoAnswer
    /\ hook = HookInit
    /\ otp = OTP(FALSE, FALSE, TRUE)

NextLegacy == NextOver({"w1"}, {"s2"}, MaxVersion)

SpecLegacy == InitLegacy /\ [][NextLegacy]_vars

\* ------------------------------------ the prerequisite validator on its own

RECURSIVE Histories(_)
Histories(n) ==
    IF n = 0 THEN {<< >>}
    ELSE Histories(n - 1) \cup
         {Append(h, m) : h \in {x \in Histories(n - 1) : Len(x) = n - 1}, m \in Modules}

Snapshots ==
    [module_history : Histories(MaxHist), module_results : [Modules -> Payloads]]

InitPre ==
    /\ cache = << >>
    /\ db = << >>
    /\ dbResults = << >>
    /\ dbTurns = << >>
    /\ modState = [sid \in SessionIds |-> [m \in Modules |-> "open"]]
    /\ wk = [w \in Workers |-> Idle]
    /\ last = NoLast
    /\ snap \in Snapshots
    /\ answer = NoAnswer
    /\ hook = HookInit
    /\ otp = OTP(FALSE, FALSE, TRUE)

\* Variant: a module that may be entered is recorded on the snapshot.
Evaluate_entering(m) ==
    /\ answer' = [module |-> m, result |-> can_enter(m, snap)]
    /\ snap' = IF can_enter(m, snap) /\ m \notin Range(snap.module_history)
               THEN [snap EXCEPT !.module_history = Append(@, m)]
               ELSE snap
    /\ UNCHANGED <<cache, db, dbResults, dbTurns, modState, wk, last, hook, otp>>

\* can_enter(module_name, session) on the snapshot.
Evaluate(m) ==
    /\ answer' = [module |-> m, result |-> can_enter(m, snap)]
    /\ UNCHANGED <<cache, db, dbResults, dbTurns, modState, wk, last, snap, hook, otp>>

NextPre == \E m \in Modules : Evaluate(m)

SpecPre == InitPre /\ [][NextPre]_vars

\* ================================================================== claims

\* The sessions that exist, in the cache or in the durable store.
Existing(c, d) == (DOMAIN c) \cup (DOMAIN d)

\* What a reader of session sid is given: the cached object, else the stored one.
View(c, d, r, sid) ==
    IF sid \in DOMAIN c THEN c[sid]
    ELSE [owner |-> d[sid].owner,
          current_module |-> d[sid].current_module,
          module_history |-> d[sid].module_history,
          module_results |-> r[sid],
          version |-> d[sid].version,
          is_complete |-> d[sid].is_complete]

\* C1: of the updates that checked the same expected version, exactly one
\* succeeds and the stored version grows by exactly 1: an update commits only
\* while the stored version still is the version it expected, and leaves the
\* stored version one above it.
C1_OneUpdatePerVersion ==
    [][\A w \in Workers :
         (wk[w].pc = "write" /\ wk'[w] # wk[w] /\ db' # db)
            => /\ db[wk[w].sid].version = wk[w].expected
               /\ db'[wk[w].sid].version = wk[w].expected + 1]_vars

\* C2: a turn on a session that is neither cached nor stored is answered
\* NotFound and creates nothing; no turn is accepted on such a session; a
\* session comes into existence only by a start that answers Created.
C2_TurnNeverCreates ==
    [][/\ (last'.op = "turn" /\ last'.sid \notin Existing(cache, db))
             => /\ last'.out = "NotFound"
                /\ UNCHANGED <<cache, db, dbResults, dbTurns, modState, wk>>
       /\ \A w \in Workers :
             (wk[w].pc = "idle" /\ wk'[w].pc # "idle")
                => wk'[w].sid \in Existing(cache, db)
       /\ \A sid \in SessionIds :
             (sid \notin Existing(cache, db) /\ sid \in Existing(cache', db'))
                => /\ last'.op = "start"
                   /\ last'.out = "Created"
                   /\ last'.sid = sid]_vars

C2_Witness ==
    /\ last.op = "turn"
    /\ last.out = "NotFound"
    /\ last.sid \notin Existing(cache, db)
    /\ Existing(cache, db) # {}

\* C3: a turn whose subject is not the owner of the session it finds is answered
\* AccessDenied; that answer comes before any delegation (no module and no
\* handler state changes) and leaves the session as it was: what is stored and
\* what a reader is given (active module, history, results, version) and the
\* turn log. No request in flight past the check belongs to a non-owner.
C3_NonOwnerDenied ==
    /\ [](\A w \in Workers :
             wk[w].pc # "idle"
                => wk[w].sub = View(cache, db, dbResults, wk[w].sid).owner)
    /\ [][/\ (/\ last'.op = "turn"
              /\ last'.sid \in DOMAIN cache'
              /\ last'.sub # cache'[last'.sid].owner)
                => last'.out = "AccessDenied"
          /\ last'.out = "AccessDenied"
                => /\ UNCHANGED <<db, dbResults, dbTurns, modState, wk>>
                   /\ View(cache', db', dbResults', last'.sid)
                         = View(cache, db, dbResults, last'.sid)]_vars

C3_Witness ==
    /\ last.op = "turn"
    /\ last.out = "AccessDenied"
    /\ last.sid \in DOMAIN cache
    /\ cache[last.sid].owner = "u1"
    /\ last.sub = "u2"
    /\ cache[last.sid].module_history # << >>

\* C4: a turn on a session whose owner is empty is answered AccessDenied
\* whenever the lookup finds the session, for every subject, the empty one
\* included; when the lookup fails the answer is NotFound; no such turn is ever
\* accepted.
C4_EmptyOwnerDenied ==
    /\ [](\A w \in Workers :
             wk[w].pc # "idle"
                => View(cache, db, dbResults, wk[w].sid).owner # NoOwner)
    /\ [][/\ (/\ last'.op = "turn"
              /\ last'.sid \in DOMAIN cache'
              /\ cache'[last'.sid].owner = NoOwner)
                => last'.out = "AccessDenied"
          /\ (/\ last'.op = "turn"
              /\ last'.sid \in Existing(cache, db)
              /\ View(cache, db, dbResults, last'.sid).owner = NoOwner)
                => last'.out \in {"AccessDenied", "NotFound"}]_vars

C4_Witness ==
    /\ last.op = "turn"
    /\ last.out = "AccessDenied"
    /\ last.sub = NoOwner
    /\ last.sid \in DOMAIN cache
    /\ cache[last.sid].owner = NoOwner

C6_ModuleNotAheadOfStore ==
    \A sid \in Existing(cache, db) :
        LET v == View(cache, db, dbResults, sid)
        IN \A m \in Modules :
              (v.is_complete \/ IndexOf(m) < IndexOf(v.current_module))
                 => dbResults[sid][m] # "absent"

\* C7: a turn in which the active module signalled completion and the durable
\* write failed returns the failure with the session as it was before the
\* module completed: same active module, same history, same results.
C7_FailedCompletionLeavesSession ==
    [][\A w \in Workers :
         (/\ wk[w].pc # "idle"
          /\ wk[w].complete
          /\ wk'[w].pc = "idle"
          /\ last'.out \in {"PersistenceError", "ConcurrentModificationError",
                            "ErrorSavingResults"})
            => /\ cache'[wk[w].sid].current_module = cache[wk[w].sid].current_module
               /\ cache'[wk[w].sid].module_history = cache[wk[w].sid].module_history
               /\ cache'[wk[w].sid].module_results = cache[wk[w].sid].module_results]_vars

\* C8: module_history lists completed modules in the order of the sequence,
\* each once, and every module in it has an entry in module_results.
C8_HistoryHasResults ==
    \A sid \in Existing(cache, db) :
        LET v == View(cache, db, dbResults, sid)
            h == v.module_history
        IN /\ \A i \in 1..Len(h) : h[i] = ModuleSequence[i]
           /\ \A i \in 1..Len(h) : modState[sid][h[i]] # "open"
           /\ \A i \in 1..Len(h) : v.module_results[h[i]] # "absent"

\* The Prerequisite Rule: DA needs every diagnostic module, TPA needs DA.
Prerequisites(m) ==
    IF m = DA THEN Range(get_diagnostic_modules)
    ELSE IF m = TPA THEN {DA}
    ELSE {}

PrerequisitesMet(m, s) ==
    \A u \in Prerequisites(m) :
        u \in Range(s.module_history) /\ s.module_results[u] = "full"

\* C9: can_enter(module, snapshot) is true exactly when every prerequisite of
\* the module is in the snapshot's module_history and has a non-empty result.
C9_CanEnterIffPrerequisites ==
    answer # NoAnswer => (answer.result <=> PrerequisitesMet(answer.module, snap))

C9_Witness ==
    /\ answer.module = TPA
    /\ answer.result = FALSE
    /\ DA \in Range(snap.module_history)
    /\ snap.module_results[DA] = "absent"

\* C10: a completed module whose successor has unmet prerequisites is answered
\* PrerequisiteUnmetError, exactly then, and the active module stays; DA or TPA
\* is never the active module of a session whose prerequisites for it are unmet.
C10_NoEntryWithoutPrerequisites ==
    /\ [](\A sid \in Existing(cache, db) :
             LET v == View(cache, db, dbResults, sid)
             IN v.current_module \in {DA, TPA}
                   => PrerequisitesMet(v.current_module, v))
    /\ [][/\ last'.out = "PrerequisiteUnmetError"
                => cache'[last'.sid].current_module = cache[last'.sid].current_module
          /\ \A w \in Workers :
                (/\ wk[w].pc = "finish"
                 /\ wk'[w].pc = "idle"
                 /\ last'.out \in {"Ok", "PrerequisiteUnmetError"})
                   => (last'.out = "PrerequisiteUnmetError"
                          <=> ~PrerequisitesMet(ModuleSequence[IndexOf(wk[w].mod) + 1],
                                                cache'[wk[w].sid]))]_vars

C10_Witness ==
    /\ last.out = "PrerequisiteUnmetError"
    /\ last.sid \in DOMAIN cache
    /\ cache[last.sid].current_module = "mood"
    /\ "mood" \in Range(cache[last.sid].module_history)
    /\ cache[last.sid].module_results["mood"] = "absent"

\* C11: an update whose expected version differs from the stored version is
\* answered ConcurrentModificationError and applies nothing (the durable record,
\* its version and the cache entry stay as they were); a handler whose expected
\* version is no longer the stored version never changes the durable record.
C11_StaleUpdateRejected ==
    [][/\ last'.out = "ConcurrentModificationError"
             => UNCHANGED <<cache, db, dbResults, dbTurns>>
       /\ \A w \in Workers :
             (/\ wk[w].pc = "update"
              /\ wk'[w].pc = "write")
                => db[wk[w].sid].version = cache[wk[w].sid].version
       /\ \A w \in Workers :
             (/\ wk[w].pc = "write"
              /\ wk[w].expected # db[wk[w].sid].version
              /\ wk'[w] # wk[w])
                => db' = db]_vars

\* C12: a version conflict found by the update of a turn ends the turn with
\* ConcurrentModificationError: the handler makes no write and no further
\* attempt for that turn, and nothing is applied.
C12_ConflictSurfacedOnce ==
    [][/\ \A w \in Workers :
             (/\ wk[w].pc = "update"
              /\ db[wk[w].sid].version # cache[wk[w].sid].version
              /\ wk'[w] # wk[w])
                => /\ wk'[w].pc \in {"idle", "update"}
                   /\ wk'[w].pc = "idle"
                         => last'.out \in {"ConcurrentModificationError",
                                           "PersistenceError", "none"}
       /\ last'.out = "ConcurrentModificationError"
             => /\ \E w \in Workers :
                     /\ wk[w].pc = "update"
                     /\ wk[w].sid = last'.sid
                     /\ wk'[w] = Idle
                /\ UNCHANGED <<cache, db, dbResults, dbTurns>>]_vars

C12_Witness ==
    /\ last.op = "turn"
    /\ last.out = "ConcurrentModificationError"
    /\ \A w \in Workers : wk[w].pc = "idle"
    /\ db[last.sid].version # cache[last.sid].version

\* C13: get answers with the cached session on a cache hit; on a cache miss
\* with the session in the durable store it caches the stored session and
\* answers with it; it answers not-found only for a session that is in neither,
\* and it creates no session.
C13_GetContract ==
    [][last'.op = "get"
          => /\ last'.sid \in DOMAIN cache
                   => last'.out = "Found" /\ cache' = cache
             /\ (last'.sid \notin DOMAIN cache /\ last'.sid \in DOMAIN db)
                   => /\ last'.out = "Found"
                      /\ last'.sid \in DOMAIN cache'
                      /\ cache'[last'.sid]
                            = View(<< >>, db, dbResults, last'.sid)
             /\ last'.out = "NotFound" => last'.sid \notin Existing(cache, db)
             /\ Existing(cache', db') = Existing(cache, db)
             /\ UNCHANGED <<db, dbResults, dbTurns>>]_vars

C17_ReadAfterTurn ==
    [][(/\ last.op = "turn"
        /\ last.out \in {"Ok", "Complete"}
        /\ last'.op = "get"
        /\ last'.sid = last.sid
        /\ last'.out = "Found")
          => /\ cache'[last'.sid].version = db[last'.sid].version
             /\ cache'[last'.sid].current_module = db[last'.sid].current_module
             /\ cache'[last'.sid].module_history = db[last'.sid].module_history]_vars

\* C18: the version of a session grows by exactly one with every committed
\* write of its record and changes with nothing else: a step that commits
\* nothing for the session leaves its version, as a reader is given it, where
\* it was, and the version never goes down.
C18_VersionStepsByOne ==
    [][\A sid \in DOMAIN db :
         /\ db'[sid] # db[sid] => db'[sid].version = db[sid].version + 1
         /\ db'[sid] = db[sid]
               => View(cache', db', dbResults', sid).version
                     = View(cache, db, dbResults, sid).version
         /\ View(cache', db', dbResults', sid).version
               >= View(cache, db, dbResults, sid).version]_vars

C20_CacheIsCommitted ==
    \A sid \in DOMAIN cache :
        /\ sid \in DOMAIN db
        /\ cache[sid] = View(<< >>, db, dbResults, sid)

C22_ForwardOnly ==
    /\ [](\A sid \in Existing(cache, db) :
             LET v == View(cache, db, dbResults, sid)
             IN /\ v.current_module = DA
                      => Range(get_diagnostic_modules) \subseteq Range(v.module_history)
                /\ v.current_module = TPA => DA \in Range(v.module_history))
    /\ [][/\ \A sid \in (DOMAIN cache) \cap (DOMAIN cache') :
                /\ IndexOf(cache'[sid].current_module)
                      >= IndexOf(cache[sid].current_module)
                /\ cache[sid].is_complete
                      => /\ cache'[sid].is_complete
                         /\ cache'[sid].current_module = cache[sid].current_module
                         /\ cache'[sid].module_history = cache[sid].module_history
                         /\ cache'[sid].module_results = cache[sid].module_results
          /\ \A sid \in DOMAIN db :
                /\ IndexOf(db'[sid].current_module) >= IndexOf(db[sid].current_module)
                /\ db[sid].is_complete
                      => /\ db'[sid].is_complete
                         /\ db'[sid].current_module = db[sid].current_module
                         /\ db'[sid].module_history = db[sid].module_history
                         /\ dbResults'[sid] = dbResults[sid]]_vars

\* C23: under fair scheduling, with the active module signalling completion
\* and the durable writes succeeding in the end, a started session reaches
\* completion, whatever the external capability answers; the turns the model
\* allows a session are counted by BudgetSpent.
BudgetSpent == VersionsUsed(cache) >= MaxSeqVersion

C23_EventuallyComplete ==
    ("s1" \in DOMAIN db)
        ~> (\/ /\ "s1" \in DOMAIN db
               /\ View(cache, db, dbResults, "s1").is_complete
            \/ BudgetSpent)

\* A turn of sub on session sid that is delegated with an interpretation of
\* path p and answered by the active module with r.
DelegatedBy(w, sid, sub, p, r) ==
    /\ process_message(w, sid, sub, MaxSeqVersion)
    /\ wk'[w].pc = "update"
    /\ wk'[w].path = p
    /\ wk'[w].complete = (r # "open")
    /\ modState'[sid][wk'[w].mod] = r

Held(f, sid) == IF sid \in DOMAIN f THEN <<f[sid]>> ELSE << >>

\* The step changes what the store, the cache or the modules hold for sid.
Touched(sid) ==
    \/ Held(db', sid) # Held(db, sid)
    \/ Held(dbResults', sid) # Held(dbResults, sid)
    \/ Held(dbTurns', sid) # Held(dbTurns, sid)
    \/ Held(cache', sid) # Held(cache, sid)
    \/ modState'[sid] # modState[sid]

\* The step is a step of a request on session sid.
RequestOn(sid) ==
    \E w \in Workers :
       \/ wk[w].pc # "idle" /\ wk[w].sid = sid /\ wk'[w] # wk[w]
       \/ wk[w].pc = "idle" /\ wk'[w].pc # "idle" /\ wk'[w].sid = sid
       \/ wk[w].pc = "idle" /\ wk'[w].pc = "idle"
             /\ last'.op # "none" /\ last'.sid = sid

\* C26: a request on a session changes nothing that is held for another
\* session, in the durable store, in the cache or in the modules, and the
\* owner of a session is the same after every step as at its creation, in the
\* record and in the cache entry. (A restart empties the whole cache.)
C26_OnlyOwnSession ==
    [][/\ (cache' # << >> \/ cache = << >>)
             => \A sid \in SessionIds : Touched(sid) => RequestOn(sid)
       /\ \A sid \in DOMAIN db :
             /\ sid \in DOMAIN db'
             /\ db'[sid].owner = db[sid].owner
       /\ \A sid \in (DOMAIN cache) \cap (DOMAIN cache') :
             cache'[sid].owner = cache[sid].owner
       /\ \A sid \in (DOMAIN cache') \cap (DOMAIN db') :
             cache'[sid].owner = db'[sid].owner]_vars

C26_Witness ==
    /\ {"s1", "s2"} \subseteq DOMAIN cache
    /\ db["s1"].version > 0
    /\ db["s2"].version > 0
    /\ cache["s1"].current_module # cache["s2"].current_module

C28_LoadingWhileInFlight ==
    hook.isLoading <=> (\E r \in Requests : hook.req[r].pc = "inflight")

\* C29: a deleteSession begins with the error null; answered 404 it resolves
\* with a success-like object and does not touch the error; failing otherwise
\* it stores the message of the error and rejects; either way isLoading is
\* false when the call has settled.
C29_DeleteSettles ==
    [][\A r \in Requests :
          /\ (hook.req[r].pc = "idle" /\ hook'.req[r].pc = "inflight")
                => hook'.error = NoError /\ hook'.isLoading
          /\ (/\ hook.req[r].pc = "inflight"
              /\ hook.req[r].call = "deleteSession"
              /\ hook'.req[r].pc # "inflight")
                => /\ ~hook'.isLoading
                   /\ hook'.req[r].status = HTTP_NOT_FOUND
                         => /\ hook'.req[r].pc = "resolved"
                            /\ hook'.req[r].value = "success_like"
                            /\ hook'.error = hook.error
                   /\ hook'.req[r].status = HTTP_OK
                         => /\ hook'.req[r].pc = "resolved"
                            /\ hook'.req[r].value = "data"
                            /\ hook'.error = hook.error
                   /\ hook'.req[r].status \notin {HTTP_OK, HTTP_NOT_FOUND}
                         => /\ hook'.req[r].pc = "rejected"
                            /\ hook'.error \in {"Request failed with status code 500",
                                                "Network Error", "An error occurred"}]_vars

C29_Witness ==
    /\ hook.req["r1"] = [pc |-> "resolved", call |-> "deleteSession",
                         value |-> "success_like", status |-> HTTP_NOT_FOUND]
    /\ hook.error = NoError
    /\ ~hook.isLoading

\* C30: a mounted OTP page sends the automatic resend request at most once,
\* and only when it was reached with from409Redirect, whatever the order of
\* the timeout, the effect runs and the user's verify and resend requests.
C30_AutoResendOnce ==
    /\ otp.autoSent <= 1
    /\ otp.autoSent = 1 => (otp.from409Redirect /\ otp.hasAutoResent)
    /\ otp.autoResendTimer => ~otp.hasAutoResent

C30_Witness ==
    /\ otp.mounted
    /\ otp.autoSent = 1
    /\ otp.requests = {}
    /\ ~otp.isSubmitting
    /\ otp.deps = EffectDeps(otp)
    /\ ~otp.autoResendTimer

====
